---- MODULE Spec2Model ----
(***************************************************************************)
(* Hedge lifecycle of the funding-rate arbitrage engine.                   *)
(*                                                                         *)
(* The repository holds two independent programs, each constructed at the  *)
(* bottom of its own file:                                                 *)
(*   FundingRateMonitor  (src/unnamed/part_000)                            *)
(*   HedgeControls       (src/src/web/static/widgets/hedge_controls.js)    *)
(* A behaviour of Spec is a run of one of them; `program` says which.      *)
(* Definitions prefixed FRM_ model FundingRateMonitor, HC_ HedgeControls.  *)
(*                                                                         *)
(* JavaScript runs one callback at a time: an action is the code executed  *)
(* between two awaits (the continuation of a settled promise included).    *)
(* Venue adapters are external: every adapter call settles with a result   *)
(* chosen nondeterministically (fulfilled or rejected).                    *)
(* Calls in flight are kept in bags: which of two identical pending calls  *)
(* settles first makes no difference.                                      *)
(***************************************************************************)
EXTENDS Integers, FiniteSets, Sequences, Bags, TLC

\* ------------------------------------------------------------------ bounds
\* Open attempts (opportunity triggers) that can be in flight at once.
MaxChecks == 2
\* Main-loop ticks that can overlap (setInterval does not wait for a tick).
MaxTicks == 2
\* Order and event counters saturate here ("MaxCount or more").
MaxCount == 2
\* Calls of emergencyShutdown().
MaxShutdowns == 1
\* Observations the adapters produce in a run (snapshot and stream).
MaxObs == 2
\* Risk ticks (with the calls they leave behind) in flight at once.
MaxRiskTicks == 2
\* Local days the clock of the main loop runs through.
MaxDays == 2
\* Items _loadHistory can load.
MaxLoaded == 1
\* The history cap of the configuration the claims speak of (default 200).
\* The monitor has no such setting; the model takes a small cap.
HistoryCap == 2
\* _checkAllExchanges calls that can be in flight at once.
MaxPolls == 1

\* ------------------------------------------------------------------ domain
Venues == {"binance", "bybit"}

Symbols == {"BTCUSDT", "ETHUSDT"}

\* Every hedge key `${symbol}:${longExchange}:${shortExchange}`.
HedgeKeys == {k \in [symbol : Symbols, long : Venues, short : Venues] : k.long # k.short}

\* The hedge keys the lifecycle runs of Spec open: one symbol, long on binance,
\* short on bybit. Records stored under different keys share no state: every
\* read and write of the table is indexed by key.
Keys == {[symbol |-> "BTCUSDT", long |-> "binance", short |-> "bybit"]}

Legs == {"long", "short"}

OtherLeg(leg) == IF leg = "long" THEN "short" ELSE "long"

Bump(n) == IF n < MaxCount THEN n + 1 ELSE n

VARIABLES
    program,          \* "FundingRateMonitor" or "HedgeControls"
    positionStatus,   \* FRM: this.positionStatus, key -> value
    attempts,         \* FRM: bag of _executeHedge calls in flight, [pc, key]
    monitored,        \* FRM: keys _checkHedging handed to _monitorHedgePosition
    activeHedgesDefined, \* HC: whether this.activeHedges is an object
    activeHedges,     \* HC: this.activeHedges, key -> status
    isHedgingActive,  \* HC: this.isHedgingActive
    emergencyStop,    \* HC: this.emergencyStop
    checks,           \* HC: bag of _checkHedgeOpportunity calls in flight
    ticks,            \* HC: bag of _monitorActiveHedges branches in flight
    shutdowns,        \* HC: bag of _closeAllPositions calls, [pc, pending]
    openLegs,         \* opening adapter calls per key: read and order results
    orders,           \* adapter order calls made so far (saturating counts)
    emitted,          \* events emitted so far, event -> count
    autoHedge,        \* FRM: config.autoHedge
    started,          \* FRM: _init got past _loadHistory (polling, streams on)
    rates,            \* FRM: this.rates, venue -> symbol -> latest observation
    history,          \* FRM: this.history, a bag of entries [exchange, symbol]
    alertCounts,      \* FRM: this.alertCounts, venue -> symbol -> count
    alerted,          \* FRM: 'alert' levels emitted for the latest observation
    polls,            \* FRM: bag of _checkAllExchanges calls, venue -> result
    produced,         \* venue -> number of observations its adapter produced
    arbitrage,        \* FRM: 'arbitrage' alerts emitted so far
    cycles,           \* FRM: snapshot cycles completed (0, or 1 for "some")
    venuePositions,   \* venues: the open positions (what getPositions returns)
    venueBalance,     \* venues: sum of what getTotalBalance returns
    riskTicks,        \* HC: bag of _calculateRiskExposure calls in flight
    exposure,         \* HC: this.exposure
    riskCloses,       \* HC: closePosition calls made by _reduceExposure
    stopped,          \* FRM: stop() was called
    wsClosed,         \* FRM: venues whose socket stop() closed, not yet reconnected
    balances,         \* venues: what getTotalBalance returns, venue -> USD
    loops,            \* HC: bag of main-loop ticks past _monitorActiveHedges
    transfers,        \* HC: transferTo calls made by _performRebalance
    pnl,              \* HC: the clock, this.dailyPnlReset and the resets made
    calc,             \* inputs and results of the sizing and monitor arithmetic
    sweeps,           \* HC: bag of _closeAllPositions calls, per-venue reads
    sweepCloses       \* HC: positions _closeAllPositions sent a close for

rateVars == <<autoHedge, started, rates, history, alertCounts, alerted, polls,
              produced, arbitrage, cycles>>

riskVars == <<venuePositions, venueBalance, riskTicks, exposure, riskCloses>>

sideVars == <<stopped, wsClosed, balances, loops, transfers, pnl, calc, sweeps, sweepCloses>>

vars == <<program, positionStatus, attempts, monitored, activeHedgesDefined,
          activeHedges, isHedgingActive, emergencyStop, checks, ticks,
          shutdowns, openLegs, orders, emitted, rateVars, riskVars, sideVars>>

frmVars == <<positionStatus, attempts, monitored>>
hcVars == <<activeHedgesDefined, activeHedges, isHedgingActive, emergencyStop,
            checks, ticks, shutdowns>>

\* ---------------------------------------------------------------- helpers
One(x) == SetToBag({x})

\* Bag b with one copy of x replaced by one copy of y.
Moved(b, x, y) == (b (-) One(x)) (+) One(y)

\* Bag b without any copy of the elements of set S.
Without(b, S) == [x \in BagToSet(b) \ S |-> b[x]]

\* createOrder(symbol, side, qty) opens a leg; closePosition(...) closes one.
OrderCalls == [venue : Venues, call : {"createOrder", "closePosition"},
               side : {"buy", "sell"}, key : HedgeKeys]

Call(v, c, s, k) == [venue |-> v, call |-> c, side |-> s, key |-> k]

\* The log after the calls in set cs were made.
Logged(log, cs) == [c \in DOMAIN log |-> IF c \in cs THEN Bump(log[c]) ELSE log[c]]

NoLegs == [read |-> "none", long |-> "none", short |-> "none"]

\* Promise.all over the two legs: rejected as soon as one is rejected,
\* fulfilled once both are fulfilled, pending otherwise.
PromiseAll(a, b) ==
    IF a = "fail" \/ b = "fail" THEN "rejected"
    ELSE IF a = "ok" /\ b = "ok" THEN "fulfilled"
    ELSE "pending"

Proc(pc, k) == [pc |-> pc, key |-> k]

\* ====================================================== FundingRateMonitor
\* Values of positionStatus[key]: undefined, the strings 'opening' and
\* 'failed', or an object whose status is 'opened', 'closed', 'close_failed'.
Undefined == [type |-> "undefined", status |-> "undefined"]
StrVal(s) == [type |-> "string", status |-> s]
ObjVal(s) == [type |-> "object", status |-> s]

FRM_Running == program = "FundingRateMonitor"

\* if (this.positionStatus[key]) : any defined value here is truthy.
FRM_hedgeExists(k) == positionStatus[k] # Undefined

\* _executeHedge up to its first await, called by _triggerArbitrageAlert
\* for an opportunity with key k when config.autoHedge is set.
FRM_executeHedge(k) ==
    /\ FRM_Running
    /\ IF FRM_hedgeExists(k)
       THEN UNCHANGED <<positionStatus, attempts>>
       ELSE /\ BagCardinality(attempts) < MaxChecks
            /\ positionStatus' = [positionStatus EXCEPT ![k] = StrVal("opening")]
            /\ attempts' = attempts (+) One(Proc("balances", k))
    /\ UNCHANGED <<program, monitored, hcVars, openLegs, orders, emitted>>

\* The catch block of _executeHedge, reached by attempt a.
FRM_catch(a, legs) ==
    /\ positionStatus' = [positionStatus EXCEPT ![a.key] = StrVal("failed")]
    /\ attempts' = attempts (-) One(a)
    /\ openLegs' = [openLegs EXCEPT ![a.key] = legs]

\* Both getBalance() calls of an attempt for key k settle: res is "ok" (both
\* fulfilled, maxSize > 0), "zero" (both fulfilled, maxSize <= 0: throws) or
\* "fail" (one rejected).
FRM_balancesSettle(k, res) ==
    /\ FRM_Running
    /\ BagIn(Proc("balances", k), attempts)
    /\ IF res = "ok"
       THEN /\ attempts' = Moved(attempts, Proc("balances", k), Proc("prices", k))
            /\ UNCHANGED <<positionStatus, openLegs>>
       ELSE FRM_catch(Proc("balances", k), [openLegs[k] EXCEPT !.read = res])
    /\ UNCHANGED <<program, monitored, hcVars, orders, emitted>>

\* The orders _executeHedge submits: buy on the long venue, sell on the short.
FRM_openCalls(k) ==
    {Call(k.long, "createOrder", "buy", k), Call(k.short, "createOrder", "sell", k)}

\* Both getPrice() calls settle; on success both orders are submitted.
FRM_pricesSettle(k, ok) ==
    /\ FRM_Running
    /\ BagIn(Proc("prices", k), attempts)
    /\ IF ok
       THEN /\ attempts' = Moved(attempts, Proc("prices", k), Proc("orders", k))
            /\ openLegs' = [openLegs EXCEPT ![k] =
                               [read |-> "ok", long |-> "pending", short |-> "pending"]]
            /\ orders' = Logged(orders, FRM_openCalls(k))
            /\ UNCHANGED positionStatus
       ELSE /\ FRM_catch(Proc("prices", k), [openLegs[k] EXCEPT !.read = "fail"])
            /\ UNCHANGED orders
    /\ UNCHANGED <<program, monitored, hcVars, emitted>>

\* What the await of Promise.all([createOrder, createOrder]) leaves in
\* positionStatus[key] once it settles.
FRM_openOutcome(long, short) ==
    IF PromiseAll(long, short) = "fulfilled" THEN ObjVal("opened") ELSE StrVal("failed")

\* One createOrder call of key k settles. The attempt awaiting it (if it has
\* not been rejected already by the other leg) continues.
FRM_orderSettles(k, leg, ok) ==
    /\ FRM_Running
    /\ openLegs[k][leg] = "pending"
    /\ LET res == [openLegs[k] EXCEPT ![leg] = IF ok THEN "ok" ELSE "fail"]
       IN  /\ openLegs' = [openLegs EXCEPT ![k] = res]
           /\ IF PromiseAll(res.long, res.short) = "pending"
                 \/ ~BagIn(Proc("orders", k), attempts)
              THEN UNCHANGED <<positionStatus, attempts>>
              ELSE /\ positionStatus' = [positionStatus EXCEPT ![k] =
                                            FRM_openOutcome(res.long, res.short)]
                   /\ attempts' = Without(attempts, {Proc("orders", k)})
    /\ UNCHANGED <<program, monitored, hcVars, orders, emitted>>

\* _checkHedging (run by _processRates after a critical observation): the
\* keys it hands to _monitorHedgePosition. It compares the VALUE stored under
\* the key with the string 'opened'; an opened hedge is stored as an object.
FRM_checkHedging ==
    /\ FRM_Running
    /\ monitored' = monitored \cup {k \in HedgeKeys : positionStatus[k] = StrVal("opened")}
    /\ UNCHANGED <<program, positionStatus, attempts, hcVars, openLegs, orders, emitted>>

FRM_Next ==
    \/ \E k \in Keys : FRM_executeHedge(k)
    \/ \E k \in Keys, res \in {"ok", "zero", "fail"} : FRM_balancesSettle(k, res)
    \/ \E k \in Keys, ok \in BOOLEAN : FRM_pricesSettle(k, ok)
    \/ \E k \in Keys, leg \in Legs, ok \in BOOLEAN : FRM_orderSettles(k, leg, ok)
    \/ FRM_checkHedging

\* =========================================================== HedgeControls
HC_Running == program = "HedgeControls"

NoKey == [symbol |-> "-", long |-> "-", short |-> "-"]

EventTypes == {"hedgeOpened", "hedgeFailed", "hedgeFailed:partial_fill",
               "hedgeClosed", "hedgeCloseFailed", "emergencyShutdown",
               "riskExceeded", "error"}

Events == [type : EventTypes, key : Keys \cup {NoKey}]

Ev(t, k) == [type |-> t, key |-> k]

\* Events whose number of emissions is recorded; of the others the log keeps
\* whether they were emitted at all.
CountedEvents == {"hedgeOpened", "hedgeClosed"}

\* this.emit(type, payload about key k)
Emit(log, t, k) == [log EXCEPT ![Ev(t, k)] = IF t \in CountedEvents THEN Bump(@) ELSE 1]

startHedging ==
    /\ HC_Running
    /\ isHedgingActive' = TRUE
    /\ UNCHANGED <<program, frmVars, activeHedgesDefined, activeHedges, emergencyStop,
                   checks, ticks, shutdowns, openLegs, orders, emitted>>

stopHedging ==
    /\ HC_Running
    /\ isHedgingActive' = FALSE
    /\ UNCHANGED <<program, frmVars, activeHedgesDefined, activeHedges, emergencyStop,
                   checks, ticks, shutdowns, openLegs, orders, emitted>>

\* The guard of _checkHedgeOpportunity: if (this.emergencyStop) return;
HC_checkRefused == emergencyStop

\* A ticker update arrives (_handleMarketUpdate) while hedging is active:
\* _checkHedgeOpportunity up to its await of _getAllPrices.
HC_checkHedgeOpportunity ==
    /\ HC_Running
    /\ isHedgingActive
    /\ IF HC_checkRefused
       THEN UNCHANGED checks
       ELSE /\ BagCardinality(checks) < MaxChecks
            /\ checks' = checks (+) One(Proc("prices", NoKey))
    /\ UNCHANGED <<program, frmVars, activeHedgesDefined, activeHedges, isHedgingActive,
                   emergencyStop, ticks, shutdowns, openLegs, orders, emitted>>

\* Variant: only an active record counts as an existing hedge.
HC_hedgeExists_activeOnly(k) == activeHedges[k] = "active"

\* if (this.activeHedges[key]) : every record stored under a key is truthy.
\* Variant: only a record that is not terminal blocks its key.
HC_hedgeExists_nonTerminal(k) == activeHedges[k] \in {"opening", "active"}

HC_hedgeExists(k) == activeHedges[k] # "absent"

\* _getAllPrices settles (it swallows read errors) and _findBestHedgeOpportunity
\* yields opp, a key or NoKey (null, or an exception that _checkHedgeOpportunity
\* catches). With an opportunity, _executeHedge runs up to its await of
\* _calculateHedgeSize. Reading activeHedges[key] while activeHedges is
\* undefined throws a TypeError, which _checkHedgeOpportunity catches.
HC_pricesSettle(opp) ==
    /\ HC_Running
    /\ BagIn(Proc("prices", NoKey), checks)
    /\ IF opp = NoKey \/ ~activeHedgesDefined \/ HC_hedgeExists(opp)
       THEN /\ checks' = checks (-) One(Proc("prices", NoKey))
            /\ UNCHANGED activeHedges
       ELSE /\ checks' = Moved(checks, Proc("prices", NoKey), Proc("size", opp))
            /\ activeHedges' = [activeHedges EXCEPT ![opp] = "opening"]
    /\ UNCHANGED <<program, frmVars, activeHedgesDefined, isHedgingActive, emergencyStop,
                   ticks, shutdowns, openLegs, orders, emitted>>

\* The orders _executeHedge submits: buy on the long venue, sell on the short.
HC_openCalls(k) ==
    {Call(k.long, "createOrder", "buy", k), Call(k.short, "createOrder", "sell", k)}

\* _calculateHedgeSize settles (its two getAvailableBalance reads); on success
\* both orders are submitted, on failure the catch block of _executeHedge runs.
HC_sizeSettles(k, ok) ==
    /\ HC_Running
    /\ BagIn(Proc("size", k), checks)
    /\ IF ok
       THEN /\ checks' = Moved(checks, Proc("size", k), Proc("orders", k))
            /\ openLegs' = [openLegs EXCEPT ![k] =
                               [read |-> "ok", long |-> "pending", short |-> "pending"]]
            /\ orders' = Logged(orders, HC_openCalls(k))
            /\ UNCHANGED <<activeHedges, emitted>>
       ELSE /\ activeHedges' = [activeHedges EXCEPT ![k] = "failed"]
            /\ checks' = checks (-) One(Proc("size", k))
            /\ openLegs' = [openLegs EXCEPT ![k].read = "fail"]
            /\ emitted' = Emit(emitted, "hedgeFailed", k)
            /\ UNCHANGED orders
    /\ UNCHANGED <<program, frmVars, activeHedgesDefined, isHedgingActive, emergencyStop,
                   ticks, shutdowns>>

\* Variant: the hedge is taken as opened when either order went through.
HC_openOutcome_anyLeg(long, short) ==
    IF long = "ok" \/ short = "ok" THEN "active" ELSE "failed"

\* The status _executeHedge leaves once Promise.all([createOrder, createOrder])
\* settles.
HC_openOutcome(long, short) ==
    IF PromiseAll(long, short) = "fulfilled" THEN "active" ELSE "failed"

\* One createOrder call of key k settles; the attempt awaiting it continues:
\* record active and 'hedgeOpened', or the catch block.
HC_orderSettles(k, leg, ok) ==
    /\ HC_Running
    /\ openLegs[k][leg] = "pending"
    /\ LET res == [openLegs[k] EXCEPT ![leg] = IF ok THEN "ok" ELSE "fail"]
           outcome == HC_openOutcome(res.long, res.short)
       IN  /\ openLegs' = [openLegs EXCEPT ![k] = res]
           /\ IF PromiseAll(res.long, res.short) = "pending"
                 \/ ~BagIn(Proc("orders", k), checks)
              THEN UNCHANGED <<activeHedges, checks, emitted>>
              ELSE /\ activeHedges' = [activeHedges EXCEPT ![k] = outcome]
                   /\ checks' = Without(checks, {Proc("orders", k)})
                   /\ emitted' = Emit(emitted,
                                      IF outcome = "active" THEN "hedgeOpened"
                                      ELSE "hedgeFailed", k)
    /\ UNCHANGED <<program, frmVars, activeHedgesDefined, isHedgingActive, emergencyStop,
                   ticks, shutdowns, orders>>

\* ---------------------------------------------------- main loop and close
\* A branch of _monitorActiveHedges: the async callback run for one key of
\* one tick. `snap` is what the branch's captured `hedge` object refers to:
\* "cur" while that object is still the one stored under the key, else the
\* status the object had when line 493 of another branch replaced it (a
\* replaced object is never written again).
Branch(k, pc, snap, long, short) ==
    [key |-> k, pc |-> pc, snap |-> snap, long |-> long, short |-> short]

Awaiting(k, pc) == Branch(k, pc, "cur", "none", "none")

\* Branches of key k in flight.
InFlight(k) == BagCardinality([b \in {x \in BagToSet(ticks) : x.key = k} |-> ticks[b]])

\* if (hedge.status !== 'active') return;  (line 461)
HC_monitorSkips(k) == activeHedges[k] # "active"

\* The interval callback of _startMainLoop up to the first awaits of
\* _monitorActiveHedges: one branch per key, each awaiting its two prices.
\* Object.entries(undefined) throws, which the callback catches. Once every
\* branch has returned the tick goes on to _checkRebalance and _updatePnL,
\* which do not touch the hedge table.
HC_mainLoopTick ==
    /\ HC_Running
    /\ IF emergencyStop \/ ~activeHedgesDefined
       THEN UNCHANGED ticks
       ELSE /\ \A k \in Keys : InFlight(k) < MaxTicks
            /\ ticks' = ticks (+) SetToBag({Awaiting(k, "prices") : k \in
                                               {j \in Keys : ~HC_monitorSkips(j)}})
    /\ UNCHANGED <<program, frmVars, activeHedgesDefined, activeHedges, isHedgingActive,
                   emergencyStop, checks, shutdowns, openLegs, orders, emitted>>

\* if (!hedge || hedge.status !== 'active') return;  (line 508)
HC_closeRefused(k) == activeHedges[k] # "active"

\* Variant: only the long leg is closed.
HC_closeCalls_longOnly(k) == {Call(k.long, "closePosition", "sell", k)}

\* The orders _closeHedge submits: sell on the long venue, buy on the short.
HC_closeCalls(k) ==
    {Call(k.long, "closePosition", "sell", k), Call(k.short, "closePosition", "buy", k)}

\* The status line 493 stores: a copy of the captured object's status.
HC_refreshedStatus(k, snap) == IF snap = "cur" THEN activeHedges[k] ELSE snap

\* Bag b with every copy of x turned into a copy of y.
Relabelled(b, x, y) ==
    IF ~BagIn(x, b) \/ x = y THEN b ELSE Without(b, {x}) (+) [e \in {y} |-> b[x]]

\* The two getPrice reads of branch b settle. decision is "fail" (a read was
\* rejected: logged), "take_profit" or "stop_loss" (_closeHedge is called and
\* runs up to its await of the two closePosition calls) or "hold" (line 493
\* stores a refreshed copy of the captured object under the key; the other
\* branches that captured the replaced object keep it as it is now).
HC_monitorPricesSettle(b, decision) ==
    /\ HC_Running
    /\ BagIn(b, ticks)
    /\ b.pc = "prices"
    /\ CASE decision = "fail" ->
              /\ ticks' = ticks (-) One(b)
              /\ UNCHANGED <<activeHedges, orders>>
         [] decision \in {"take_profit", "stop_loss"} ->
              IF HC_closeRefused(b.key)
              THEN /\ ticks' = ticks (-) One(b)
                   /\ UNCHANGED <<activeHedges, orders>>
              ELSE /\ ticks' = Moved(ticks, b,
                                     Branch(b.key, "closing", "cur", "pending", "pending"))
                   /\ orders' = Logged(orders, HC_closeCalls(b.key))
                   /\ UNCHANGED activeHedges
         [] decision = "hold" ->
              /\ activeHedges' = [activeHedges EXCEPT ![b.key] =
                                     HC_refreshedStatus(b.key, b.snap)]
              /\ ticks' = Relabelled(ticks (-) One(b), Awaiting(b.key, "prices"),
                                     [Awaiting(b.key, "prices") EXCEPT
                                         !.snap = activeHedges[b.key]])
              /\ UNCHANGED orders
    /\ UNCHANGED <<program, frmVars, activeHedgesDefined, isHedgingActive, emergencyStop,
                   checks, shutdowns, openLegs, emitted>>

\* The catch block of _closeHedge, reached by branch b.
HC_closeCatch(b) ==
    /\ activeHedges' = [activeHedges EXCEPT ![b.key] = "close_failed"]
    /\ emitted' = Emit(emitted, "hedgeCloseFailed", b.key)
    /\ ticks' = ticks (-) One(b)

\* One closePosition call of the _closeHedge of branch b settles. A rejection
\* rejects the Promise.all at once; with both fulfilled the final PnL prices
\* are read.
HC_closeLegSettles(b, leg, ok) ==
    /\ HC_Running
    /\ BagIn(b, ticks)
    /\ b.pc = "closing"
    /\ b[leg] = "pending"
    /\ IF ok
       THEN /\ ticks' = Moved(ticks, b, IF b[OtherLeg(leg)] = "ok"
                                        THEN Awaiting(b.key, "pnlLong")
                                        ELSE [b EXCEPT ![leg] = "ok"])
            /\ UNCHANGED <<activeHedges, emitted>>
       ELSE HC_closeCatch(b)
    /\ UNCHANGED <<program, frmVars, activeHedgesDefined, isHedgingActive, emergencyStop,
                   checks, shutdowns, openLegs, orders>>

\* A getPrice read for the final PnL settles (long venue first, then short);
\* after the second the record is marked closed and 'hedgeClosed' is emitted.
HC_finalPriceSettles(b, ok) ==
    /\ HC_Running
    /\ BagIn(b, ticks)
    /\ b.pc \in {"pnlLong", "pnlShort"}
    /\ IF ~ok
       THEN HC_closeCatch(b)
       ELSE IF b.pc = "pnlLong"
       THEN /\ ticks' = Moved(ticks, b, Awaiting(b.key, "pnlShort"))
            /\ UNCHANGED <<activeHedges, emitted>>
       ELSE /\ ticks' = ticks (-) One(b)
            /\ activeHedges' = [activeHedges EXCEPT ![b.key] = "closed"]
            /\ emitted' = Emit(emitted, "hedgeClosed", b.key)
    /\ UNCHANGED <<program, frmVars, activeHedgesDefined, isHedgingActive, emergencyStop,
                   checks, shutdowns, openLegs, orders>>

\* ------------------------------------------------------ emergency shutdown
Shutdown(pc, pending) == [pc |-> pc, pending |-> pending]

\* emergencyShutdown(): sets the flags, starts _closeAllPositions (which runs
\* up to its await of _getAllPositions) and emits 'emergencyShutdown'.
emergencyShutdown ==
    /\ HC_Running
    /\ BagCardinality(shutdowns) < MaxShutdowns
    /\ emergencyStop' = TRUE
    /\ isHedgingActive' = FALSE
    /\ shutdowns' = shutdowns (+) One(Shutdown("positions", {}))
    /\ emitted' = Emit(emitted, "emergencyShutdown", NoKey)
    /\ UNCHANGED <<program, frmVars, activeHedgesDefined, activeHedges, checks, ticks,
                   openLegs, orders>>

\* _getAllPositions settles: rejected if the read of one venue is rejected
\* (then _closeAllPositions is rejected and closes nothing), else open is the
\* set of venues holding a position and one closePosition is sent for each.
HC_positionsSettle(ok, open) ==
    /\ HC_Running
    /\ BagIn(Shutdown("positions", {}), shutdowns)
    /\ shutdowns' = Moved(shutdowns, Shutdown("positions", {}),
                          IF ~ok THEN Shutdown("rejected", {})
                          ELSE IF open = {} THEN Shutdown("done", {})
                          ELSE Shutdown("closing", open))
    /\ UNCHANGED <<program, frmVars, activeHedgesDefined, activeHedges, isHedgingActive,
                   emergencyStop, checks, ticks, openLegs, orders, emitted>>

\* One closePosition of the _closeAllPositions call c settles; a rejection is
\* swallowed by its .catch.
HC_shutdownCloseSettles(c, v) ==
    /\ HC_Running
    /\ BagIn(c, shutdowns)
    /\ c.pc = "closing"
    /\ v \in c.pending
    /\ shutdowns' = Moved(shutdowns, c, IF c.pending = {v} THEN Shutdown("done", {})
                                        ELSE Shutdown("closing", c.pending \ {v}))
    /\ UNCHANGED <<program, frmVars, activeHedgesDefined, activeHedges, isHedgingActive,
                   emergencyStop, checks, ticks, openLegs, orders, emitted>>

HC_Next ==
    \/ startHedging
    \/ stopHedging
    \/ HC_checkHedgeOpportunity
    \/ \E opp \in Keys \cup {NoKey} : HC_pricesSettle(opp)
    \/ \E k \in Keys, ok \in BOOLEAN : HC_sizeSettles(k, ok)
    \/ \E k \in Keys, leg \in Legs, ok \in BOOLEAN : HC_orderSettles(k, leg, ok)
    \/ HC_mainLoopTick
    \/ \E b \in BagToSet(ticks), d \in {"fail", "take_profit", "stop_loss", "hold"} :
          HC_monitorPricesSettle(b, d)
    \/ \E b \in BagToSet(ticks), leg \in Legs, ok \in BOOLEAN : HC_closeLegSettles(b, leg, ok)
    \/ \E b \in BagToSet(ticks), ok \in BOOLEAN : HC_finalPriceSettles(b, ok)
    \/ emergencyShutdown
    \/ \E ok \in BOOLEAN, open \in SUBSET Venues : HC_positionsSettle(ok, open)
    \/ \E c \in BagToSet(shutdowns), v \in Venues : HC_shutdownCloseSettles(c, v)

\* ================================================= FundingRateMonitor: rates
\* Rates are decimals; the model writes them as integers in units of 10^-8
\* (0.0005 is 50000).
Warning == 50000
Critical == 100000
Arbitrage == 200000

\* Observations the adapters produce in RateSpec: |rate| = warning, a negative
\* rate with |rate| = critical, and a rate above critical.
Rates == {50000, -100000, 110000}

\* Object.entries(this.exchanges) / Object.keys(this.exchanges): insertion order.
VenueOrder == <<"binance", "bybit">>

\* Decimal.set({ precision: 8, rounding: ROUND_DOWN }): the result of an
\* arithmetic operation keeps 8 significant digits, the rest is cut off.
\* (For |n| < 10^9; comparisons, abs and the constructor do not round.)
RoundDown8(n) ==
    IF n >= 100000000 THEN (n \div 10) * 10
    ELSE IF n <= -100000000 THEN -(((-n) \div 10) * 10)
    ELSE n

DecimalSub(a, b) == RoundDown8(a - b)

DecimalAbs(a) == IF a < 0 THEN -a ELSE a

\* An empty slot of this.rates[exchange][symbol]; a filled slot has seq >= 1,
\* the position of its observation among those the venue's adapter produced.
NoObs == [rate |-> 0, seq |-> 0]

HasRate(store, v, s) == store[v][s].seq > 0

\* Observations produced so far, by both adapters.
Produced == produced["binance"] + produced["bybit"]

\* Variant: the signed rate is compared with the thresholds.
FRM_alertLevels_signed(rate) ==
    IF rate > Critical THEN {"critical"}
    ELSE IF rate > Warning THEN {"warning"}
    ELSE {}

\* _processRates, lines 131-138: the 'alert' events of one observation.
FRM_alertLevels(rate) ==
    IF DecimalAbs(rate) > Critical THEN {"critical"}
    ELSE IF DecimalAbs(rate) > Warning THEN {"warning"}
    ELSE {}

\* Variant: only an observation of warning level is counted.
FRM_nextAlertCount_warningOnly(count, rate) ==
    IF DecimalAbs(rate) > Warning /\ ~(DecimalAbs(rate) > Critical)
    THEN Bump(count) ELSE 0

\* _processRates, lines 140-146: the alert counter after one observation
\* (an undefined counter reads as 0).
FRM_nextAlertCount(count, rate) ==
    IF DecimalAbs(rate) > Warning THEN Bump(count) ELSE 0

\* The store as _processRates reads and writes it; critical is hasCritical.
RateState ==
    [rates |-> rates, history |-> history, alertCounts |-> alertCounts,
     alerted |-> alerted, critical |-> FALSE]

\* One iteration of rates.forEach in _processRates(v, ...), for observation o.
\* this.history is kept as the bag of its entries, each reduced to its venue
\* and symbol: nothing reads the array, its order or the other fields.
FRM_processOne(st, v, o) ==
    [rates |-> [st.rates EXCEPT ![v][o.symbol] = [rate |-> o.rate, seq |-> o.seq]],
     history |-> st.history (+) One([exchange |-> v, symbol |-> o.symbol]),
     alertCounts |-> [st.alertCounts EXCEPT ![v][o.symbol] =
                         FRM_nextAlertCount(@, o.rate)],
     alerted |-> [st.alerted EXCEPT ![v][o.symbol] = FRM_alertLevels(o.rate)],
     critical |-> st.critical \/ "critical" \in FRM_alertLevels(o.rate)]

\* _processRates(v, obs): every observation of the array, in order.
RECURSIVE FRM_processRates(_, _, _)
FRM_processRates(st, v, obs) ==
    IF obs = <<>> THEN st
    ELSE FRM_processRates(FRM_processOne(st, v, Head(obs)), v, Tail(obs))

\* The keys _checkHedging hands on: stored VALUE === 'opened'.
FRM_openedKeys == {k \in HedgeKeys : positionStatus[k] = StrVal("opened")}

\* The store after _processRates; with hasCritical, _checkHedging has run.
FRM_stored(st) ==
    /\ rates' = st.rates
    /\ history' = st.history
    /\ alertCounts' = st.alertCounts
    /\ alerted' = st.alerted
    /\ monitored' = IF st.critical THEN monitored \cup FRM_openedKeys ELSE monitored

\* _loadHistory settles (n items loaded; 0 also stands for a failed load) and
\* _init goes on to _startPolling and _connectWebSockets.
LoadedItem == [exchange |-> "loaded", symbol |-> "loaded"]

FRM_historyLoaded(n) ==
    /\ FRM_Running
    /\ ~started
    /\ started' = TRUE
    /\ history' = [e \in {x \in {LoadedItem} : n > 0} |-> n]
    /\ UNCHANGED <<program, positionStatus, attempts, monitored, hcVars, openLegs,
                   orders, emitted, autoHedge, rates, alertCounts, alerted, polls,
                   produced, arbitrage, cycles, riskVars, sideVars>>

\* The callback _connectWebSockets gives venue v's adapter is called with a
\* funding update: _processRates(v, [update]).
FRM_streamApplied(v, s, r) ==
    /\ FRM_Running
    /\ started
    /\ v \notin wsClosed
    /\ produced' = [produced EXCEPT ![v] = @ + 1]
    /\ FRM_stored(FRM_processRates(RateState, v,
                     <<[symbol |-> s, rate |-> r, seq |-> produced[v] + 1]>>))
    /\ UNCHANGED <<program, positionStatus, attempts, hcVars, openLegs, orders,
                   emitted, autoHedge, started, polls, arbitrage, cycles, riskVars, sideVars>>

\* A stream update, while the venues have observations left to produce.
FRM_streamUpdate(v, s, r) ==
    /\ Produced < MaxObs
    /\ FRM_streamApplied(v, s, r)

\* ------------------------------------------------------- arbitrage scan
\* _findCommonSymbols: the symbols every venue present in this.rates has
\* (a venue is present once one of its observations was stored).
FRM_findCommonSymbols(store) ==
    LET withData == {v \in Venues : \E s \in Symbols : HasRate(store, v, s)}
    IN  IF withData = {} THEN {}
        ELSE {s \in Symbols : \A v \in withData : HasRate(store, v, s)}

\* The start value of both reduces: ['', +-Infinity].
NoRate == [exchange |-> "", rate |-> 0]

\* _findMaxRate over the rates collected for symbol s: the first venue, in
\* insertion order, holding the greatest rate.
RECURSIVE FRM_findMaxRate(_, _, _, _)
FRM_findMaxRate(store, s, vs, max) ==
    IF vs = <<>> THEN max
    ELSE LET v == Head(vs)
             r == store[v][s].rate
         IN  FRM_findMaxRate(store, s, Tail(vs),
                 IF HasRate(store, v, s) /\ (max = NoRate \/ r > max.rate)
                 THEN [exchange |-> v, rate |-> r] ELSE max)

\* _findMinRate: the first venue holding the smallest rate.
RECURSIVE FRM_findMinRate(_, _, _, _)
FRM_findMinRate(store, s, vs, min) ==
    IF vs = <<>> THEN min
    ELSE LET v == Head(vs)
             r == store[v][s].rate
         IN  FRM_findMinRate(store, s, Tail(vs),
                 IF HasRate(store, v, s) /\ (min = NoRate \/ r < min.rate)
                 THEN [exchange |-> v, rate |-> r] ELSE min)

\* _triggerArbitrageAlert(symbol, longExchange, longRate, shortExchange,
\* shortRate): the 'arbitrage' alert it emits.
FRM_triggerArbitrageAlert(symbol, longExchange, longRate, shortExchange, shortRate) ==
    [symbol |-> symbol, longExchange |-> longExchange, longRate |-> longRate,
     shortExchange |-> shortExchange, shortRate |-> shortRate,
     spread |-> DecimalSub(longRate, shortRate)]

\* Variant: a spread equal to the threshold counts as an opportunity.
FRM_opportunity_atThreshold(store, s) ==
    LET max == FRM_findMaxRate(store, s, VenueOrder, NoRate)
        min == FRM_findMinRate(store, s, VenueOrder, NoRate)
    IN  IF /\ Cardinality({v \in Venues : HasRate(store, v, s)}) >= 2
           /\ DecimalSub(max.rate, min.rate) >= Arbitrage
        THEN {FRM_triggerArbitrageAlert(s, max.exchange, max.rate,
                                        min.exchange, min.rate)}
        ELSE {}

\* The body of commonSymbols.forEach in _checkArbitrageOpportunities: the
\* alerts emitted for symbol s. The call at line 215 passes the venue with the
\* MAXIMUM rate as longExchange and the one with the minimum as shortExchange.
FRM_opportunity(store, s) ==
    LET max == FRM_findMaxRate(store, s, VenueOrder, NoRate)
        min == FRM_findMinRate(store, s, VenueOrder, NoRate)
    IN  IF /\ Cardinality({v \in Venues : HasRate(store, v, s)}) >= 2
           /\ DecimalSub(max.rate, min.rate) > Arbitrage
        THEN {FRM_triggerArbitrageAlert(s, max.exchange, max.rate,
                                        min.exchange, min.rate)}
        ELSE {}

FRM_checkArbitrageOpportunities(store) ==
    UNION {FRM_opportunity(store, s) : s \in FRM_findCommonSymbols(store)}

\* The key _executeHedge builds from the arguments _triggerArbitrageAlert
\* passes on: (symbol, longExchange, shortExchange).
FRM_hedgeKey(alert) ==
    [symbol |-> alert.symbol, long |-> alert.longExchange, short |-> alert.shortExchange]

\* _checkArbitrageOpportunities over the store: alerts are emitted and, with
\* config.autoHedge, _executeHedge runs for each up to its first await.
FRM_scan(store) ==
    LET alerts == FRM_checkArbitrageOpportunities(store)
        opened == IF autoHedge
                  THEN {k \in {FRM_hedgeKey(a) : a \in alerts} : ~FRM_hedgeExists(k)}
                  ELSE {}
    IN  /\ arbitrage' = arbitrage \cup alerts
        /\ positionStatus' = [k \in HedgeKeys |->
                                 IF k \in opened THEN StrVal("opening")
                                 ELSE positionStatus[k]]
        /\ attempts' = attempts (+) SetToBag({Proc("balances", k) : k \in opened})

\* ------------------------------------------------------- snapshot cycle
\* The result of one venue's fetchFundingRates within a cycle.
Pending == [status |-> "pending", obs |-> <<>>]
Rejected == [status |-> "rejected", obs |-> <<>>]
Fulfilled(obs) == [status |-> "fulfilled", obs |-> obs]

\* The observations of array data, produced by venue v's adapter now.
Stamped(v, data) ==
    [i \in 1..Len(data) |->
        [symbol |-> data[i].symbol, rate |-> data[i].rate, seq |-> produced[v] + i]]

\* The interval callback of _startPolling (and its setImmediate):
\* _checkAllExchanges up to its await, one fetchFundingRates per venue.
FRM_pollTick ==
    /\ FRM_Running
    /\ started
    /\ ~stopped
    /\ BagCardinality(polls) < MaxPolls
    /\ polls' = polls (+) One([v \in Venues |-> Pending])
    /\ UNCHANGED <<program, positionStatus, attempts, monitored, hcVars, openLegs,
                   orders, emitted, autoHedge, started, rates, history, alertCounts,
                   alerted, produced, arbitrage, cycles, riskVars, sideVars>>

\* stop(), lines 439-442: the interval is cleared and the sockets are closed.
\* Nothing else is told: a running _checkAllExchanges and the open attempts go
\* on. disconnect() (484-489) closes each adapter's socket.
FRM_stop ==
    /\ FRM_Running
    /\ started
    /\ ~stopped
    /\ stopped' = TRUE
    /\ wsClosed' = Venues
    /\ UNCHANGED <<program, frmVars, hcVars, openLegs, orders, emitted, rateVars,
                   riskVars, balances, loops, transfers, pnl, calc, sweeps, sweepCloses>>

\* The 'close' handler of venue v's socket, lines 593-596: whoever closed the
\* socket, connectWebSocket(callback) is called again 5 seconds later.
FRM_socketReconnects(v) ==
    /\ FRM_Running
    /\ v \in wsClosed
    /\ wsClosed' = wsClosed \ {v}
    /\ UNCHANGED <<program, frmVars, hcVars, openLegs, orders, emitted, rateVars,
                   riskVars, stopped, balances, loops, transfers, pnl, calc, sweeps,
                   sweepCloses>>

\* Variant: Promise.all in place of Promise.allSettled, one rejected fetch
\* drops the results of the whole cycle.
FRM_processResults_allOrNothing(st, results, vs) ==
    IF \E v \in Venues : results[v].status = "rejected" THEN st
    ELSE FRM_processRates(FRM_processRates(st, vs[1], results[vs[1]].obs),
                          vs[2], results[vs[2]].obs)

\* results.forEach of _checkAllExchanges: every fulfilled result is processed,
\* in the order of this.exchanges; a rejected one is logged.
RECURSIVE FRM_processResults(_, _, _)
FRM_processResults(st, results, vs) ==
    IF vs = <<>> THEN st
    ELSE FRM_processResults(
             IF results[Head(vs)].status = "fulfilled"
             THEN FRM_processRates(st, Head(vs), results[Head(vs)].obs)
             ELSE st,
             results, Tail(vs))

\* fetchFundingRates of venue v settles within cycle p: rejected, or fulfilled
\* with the array data. Promise.allSettled waits for every venue; once the
\* last has settled the results are processed and the arbitrage scan runs.
FRM_fetchSettles(p, v, ok, data) ==
    /\ FRM_Running
    /\ BagIn(p, polls)
    /\ p[v].status = "pending"
    /\ data = <<>> \/ Produced + Len(data) <= MaxObs
    /\ ok \/ data = <<>>
    /\ LET q == [p EXCEPT ![v] = IF ok THEN Fulfilled(Stamped(v, data)) ELSE Rejected]
       IN  /\ produced' = [produced EXCEPT ![v] = @ + Len(data)]
           /\ IF \E w \in Venues : q[w].status = "pending"
              THEN /\ polls' = Moved(polls, p, q)
                   /\ UNCHANGED <<rates, history, alertCounts, alerted, monitored,
                                  arbitrage, positionStatus, attempts, cycles>>
              ELSE LET st == FRM_processResults(RateState, q, VenueOrder)
                   IN  /\ polls' = polls (-) One(p)
                       /\ FRM_stored(st)
                       /\ FRM_scan(st.rates)
                       /\ cycles' = 1
    /\ UNCHANGED <<program, hcVars, openLegs, orders, emitted, autoHedge, started,
                   riskVars, sideVars>>

\* ============================================ HedgeControls: risk engine
\* Ratios are in thousandths, values in USD, sizes in contracts.
\* config.maxExposure, line 23: 0.1.
MaxExposure == 100
\* The factor of line 201: 0.8.
ReduceFactor == 800

\* What a Decimal expression can yield: a number, +-Infinity, NaN; a pending
\* Promise is what an un-awaited async call yields; DecimalError is the
\* exception the Decimal constructor throws on an argument that is neither a
\* number, a string nor a Decimal.
Num(n) == [kind |-> "number", n |-> n]
PromiseOf(n) == [kind |-> "promise", n |-> n]
Infinite(sign) == [kind |-> "infinity", n |-> sign]
NaN == [kind |-> "nan", n |-> 0]
DecimalError == [kind |-> "error", n |-> 0]

\* Division rounding toward zero (Decimal.ROUND_DOWN, line 17), for d > 0.
Quot(n, d) == IF n >= 0 THEN n \div d ELSE -((-n) \div d)

\* The positions the venues can hold; venuePositions gives the size of each
\* (0: none). The unrealized PnLs differ, so the order in which the venues
\* answer _getAllPositions does not show in the sort of line 197.
PositionInfo ==
    <<[exchange |-> "binance", symbol |-> "BTCUSDT", side |-> "long",
       markPrice |-> 2, unrealizedPnl |-> -5],
      [exchange |-> "bybit", symbol |-> "BTCUSDT", side |-> "short",
       markPrice |-> 2, unrealizedPnl |-> 3],
      [exchange |-> "bybit", symbol |-> "ETHUSDT", side |-> "long",
       markPrice |-> 1, unrealizedPnl |-> -10]>>

PositionIds == 1..Len(PositionInfo)

\* _calculateNetExposure, lines 155-165: long values minus short values.
RECURSIVE HC_netValue(_, _)
HC_netValue(positions, i) ==
    IF i = 0 THEN 0
    ELSE LET value == positions[i] * PositionInfo[i].markPrice
         IN  HC_netValue(positions, i - 1)
                 + (IF PositionInfo[i].side = "long" THEN value ELSE -value)

\* _getTotalPortfolioValue() as its callers use it, lines 168 and 202: the
\* async function is called without await and its Promise is the argument.
HC_getTotalPortfolioValue(balance) == PromiseOf(balance)

\* x.div(y), x a number of USD, the quotient a ratio.
HC_div(x, y) ==
    IF y.kind # "number" THEN DecimalError
    ELSE IF y.n = 0 THEN (IF x = 0 THEN NaN ELSE Infinite(IF x > 0 THEN 1 ELSE -1))
    ELSE Num(Quot(x * 1000, y.n))

\* x.mul(y), x a ratio, the product a number of USD.
HC_mul(x, y) ==
    IF y.kind # "number" THEN DecimalError
    ELSE IF x.kind = "nan" THEN NaN
    ELSE IF x.kind = "infinity" THEN (IF y.n = 0 THEN NaN ELSE x)
    ELSE Num(Quot(x.n * y.n, 1000))

\* _calculateNetExposure, line 168.
HC_calculateNetExposure(positions, balance) ==
    HC_div(HC_netValue(positions, Len(PositionInfo)), HC_getTotalPortfolioValue(balance))

\* exposure.abs().gt(this.config.maxExposure), line 131.
HC_exposureExceeded(e) ==
    \/ e.kind = "infinity"
    \/ e.kind = "number" /\ DecimalAbs(e.n) > MaxExposure

\* this.exposure.gt('0') ? 'long' : 'short', line 190.
HC_reduceSide(e) ==
    IF (e.kind = "number" /\ e.n > 0) \/ (e.kind = "infinity" /\ e.n > 0)
    THEN "long" ELSE "short"

\* this.exposure.abs().sub(this.config.maxExposure.mul('0.8')), line 201.
HC_targetReduction(e) ==
    IF e.kind = "number" THEN Num(DecimalAbs(e.n) - Quot(MaxExposure * ReduceFactor, 1000))
    ELSE IF e.kind = "infinity" THEN Infinite(1)
    ELSE NaN

\* sorted with x put after the entries whose unrealizedPnl is not above its own.
RECURSIVE HC_inserted(_, _)
HC_inserted(sorted, x) ==
    IF sorted = <<>> THEN <<x>>
    ELSE IF PositionInfo[Head(sorted).id].unrealizedPnl <= PositionInfo[x.id].unrealizedPnl
         THEN <<Head(sorted)>> \o HC_inserted(Tail(sorted), x)
         ELSE <<x>> \o sorted

\* _flattenPositions, then filter and sort of lines 195-197: the positions of
\* the side to reduce, by ascending unrealizedPnl, each with the size read.
RECURSIVE HC_sortedPositions(_, _, _)
HC_sortedPositions(positions, side, i) ==
    IF i = 0 THEN <<>>
    ELSE LET before == HC_sortedPositions(positions, side, i - 1)
         IN  IF positions[i] > 0 /\ PositionInfo[i].side = side
             THEN HC_inserted(before, [id |-> i, size |-> positions[i]])
             ELSE before

\* Decimal.min(pos.size, remaining.div(pos.markPrice)), line 238; a NaN
\* quantity is written -1.
HC_closeSize(pos, remaining) ==
    IF remaining.kind = "number"
    THEN (IF Quot(remaining.n, PositionInfo[pos.id].markPrice) < pos.size
          THEN Quot(remaining.n, PositionInfo[pos.id].markPrice) ELSE pos.size)
    ELSE IF remaining.kind = "infinity" THEN pos.size
    ELSE -1

\* The closePosition call of lines 242-246.
HC_closeCall(pos, remaining) ==
    [exchange |-> PositionInfo[pos.id].exchange,
     symbol |-> PositionInfo[pos.id].symbol,
     side |-> IF PositionInfo[pos.id].side = "long" THEN "sell" ELSE "buy",
     quantity |-> HC_closeSize(pos, remaining)]

\* remaining.lte('0'), line 235.
HC_targetReached(remaining) ==
    \/ remaining.kind = "number" /\ remaining.n <= 0
    \/ remaining.kind = "infinity" /\ remaining.n < 0

\* remaining.sub(closeSize.mul(pos.markPrice)), line 248.
HC_remainingAfter(pos, remaining) ==
    IF remaining.kind = "number"
    THEN Num(remaining.n - HC_closeSize(pos, remaining) * PositionInfo[pos.id].markPrice)
    ELSE remaining

\* The points at which a risk tick waits, and the call line 168 or 202 leaves
\* running with nobody waiting for it.
RiskCall(stage, queue, remaining) == [stage |-> stage, queue |-> queue, remaining |-> remaining]
TotalCall == RiskCall("total", <<>>, Num(0))

\* The state a risk tick reads and writes.
RiskState ==
    [positions |-> venuePositions, ticks |-> riskTicks, exposure |-> exposure,
     closes |-> riskCloses, log |-> emitted]

\* _closePositionsUntilTarget, lines 234-246, from the head of the loop to its
\* next await; past the loop _reduceExposure and _updateVolatility return.
HC_closeLoop(st, queue, remaining) ==
    IF queue = <<>> \/ HC_targetReached(remaining) THEN st
    ELSE [st EXCEPT !.closes = Append(@, HC_closeCall(Head(queue), remaining)),
                    !.ticks = @ (+) One(RiskCall("close", queue, remaining))]

\* The continuation of awaited call t of a risk tick, fulfilled (ok) or
\* rejected. _calculateRiskExposure, lines 122-141; _reduceExposure, lines
\* 183-209; _closePositionsUntilTarget, lines 232-252.
HC_riskResumed(st, t, ok) ==
    LET rest == [st EXCEPT !.ticks = @ (-) One(t)]
        failed == [rest EXCEPT !.log = Emit(@, "error", NoKey)]
        called == [rest EXCEPT !.ticks = @ (+) One(TotalCall)]
    IN  CASE t.stage = "total" -> rest
          [] t.stage = "positions" ->
                IF ~ok THEN failed
                ELSE LET e == HC_calculateNetExposure(st.positions, venueBalance)
                     IN  IF e = DecimalError
                         THEN [called EXCEPT !.log = Emit(@, "error", NoKey)]
                         ELSE IF ~HC_exposureExceeded(e)
                         THEN [called EXCEPT !.exposure = e]
                         ELSE IF emergencyStop
                         THEN [called EXCEPT !.exposure = e,
                                             !.log = Emit(@, "riskExceeded", NoKey)]
                         ELSE [called EXCEPT !.exposure = e,
                                             !.log = Emit(@, "riskExceeded", NoKey),
                                             !.ticks = @ (+) One(RiskCall("reducePositions",
                                                                          <<>>, Num(0)))]
          [] t.stage = "reducePositions" ->
                IF ~ok THEN failed
                ELSE LET sorted == HC_sortedPositions(st.positions,
                                       HC_reduceSide(st.exposure), Len(PositionInfo))
                         usdToReduce == HC_mul(HC_targetReduction(st.exposure),
                                               HC_getTotalPortfolioValue(venueBalance))
                     IN  IF usdToReduce = DecimalError
                         THEN [called EXCEPT !.log = Emit(@, "error", NoKey)]
                         ELSE HC_closeLoop(called, sorted, usdToReduce)
          [] t.stage = "close" ->
                LET pos == Head(t.queue)
                    size == HC_closeSize(pos, t.remaining)
                IN  IF ~ok THEN HC_closeLoop(rest, Tail(t.queue), t.remaining)
                    ELSE HC_closeLoop(
                             [rest EXCEPT !.positions[pos.id] =
                                              IF size < 0 \/ size > @ THEN @ ELSE @ - size],
                             Tail(t.queue), HC_remainingAfter(pos, t.remaining))

\* The interval callback of _startRiskEngine, lines 116-118, up to the await
\* of line 124.
HC_riskTick ==
    /\ HC_Running
    /\ BagCardinality(riskTicks) < MaxRiskTicks
    /\ riskTicks' = riskTicks (+) One(RiskCall("positions", <<>>, Num(0)))
    /\ UNCHANGED <<program, frmVars, hcVars, openLegs, orders, emitted, rateVars, sideVars,
                   venuePositions, venueBalance, exposure, riskCloses>>

\* A call a risk tick made settles.
HC_riskSettles(t, ok) ==
    /\ HC_Running
    /\ t \in BagToSet(riskTicks)
    /\ LET st == HC_riskResumed(RiskState, t, ok)
       IN  /\ venuePositions' = st.positions
           /\ riskTicks' = st.ticks
           /\ exposure' = st.exposure
           /\ riskCloses' = st.closes
           /\ emitted' = st.log
    /\ UNCHANGED <<program, frmVars, hcVars, openLegs, orders, rateVars, sideVars,
                   venueBalance>>

\* _getAllPositions of a _closeAllPositions call settles, lines 144-152 and
\* 649-660, over the portfolio of the risk engine: getPositions fulfils for
\* the venues in readable. Promise.all is rejected unless every venue is
\* readable, and then nothing is closed; else one closePosition is sent for
\* every position, each with its own .catch.
HC_sweepPositionsSettle(readable) ==
    /\ HC_Running
    /\ BagIn(Shutdown("positions", {}), shutdowns)
    /\ sweeps' = sweeps (+) One([readable |-> readable])
    /\ LET open == {i \in PositionIds : venuePositions[i] > 0}
       IN  IF readable # Venues
           THEN /\ shutdowns' = Moved(shutdowns, Shutdown("positions", {}),
                                      Shutdown("rejected", {}))
                /\ UNCHANGED sweepCloses
           ELSE /\ shutdowns' = Moved(shutdowns, Shutdown("positions", {}),
                                      IF open = {} THEN Shutdown("done", {})
                                      ELSE Shutdown("closing", open))
                /\ sweepCloses' = sweepCloses \cup open
    /\ UNCHANGED <<program, frmVars, activeHedgesDefined, activeHedges, isHedgingActive,
                   emergencyStop, checks, ticks, openLegs, orders, emitted, rateVars,
                   riskVars, stopped, wsClosed, balances, loops, transfers, pnl, calc>>

\* ============================================== HedgeControls: main loop
\* The interval callback of _startMainLoop with no hedge in the table:
\* _monitorActiveHedges, _checkRebalance, _updatePnL.
\* The exchanges _initExchanges can configure.
HC_Exchanges == {"binance", "ftx", "bybit"}

\* config.rebalanceThreshold, line 24: 0.03, in hundredths.
RebalanceThreshold == 3

\* The orders in which the keys of the `balances` object of
\* _getExchangeBalances can be inserted: the order in which the reads resolve.
HC_balanceOrders ==
    {o \in [1..Cardinality(HC_Exchanges) -> HC_Exchanges] :
        \A i, j \in DOMAIN o : o[i] = o[j] => i = j}

\* The total of line 551. The balances of the model are multiples of
\* 3 x 100 USD, so that the average of lines 552 and 577 is a whole number.
HC_totalBalance(bal) == bal["binance"] + bal["ftx"] + bal["bybit"]

\* Variant: the amount is the sender's diff, not capped by the recipient's
\* deficit.
HC_performRebalance_uncapped(bal, o) ==
    LET total == HC_totalBalance(bal)
        target == total \div 3
        recipients(name) == {i \in DOMAIN o : o[i] # name /\ bal[o[i]] < target}
        first(name) == o[CHOOSE i \in recipients(name) : \A j \in recipients(name) : i <= j]
    IN  {[from |-> name, to |-> first(name), amount |-> bal[name] - target] :
            name \in {v \in HC_Exchanges :
                         /\ ~(DecimalAbs(bal[v] - target) * 100 < RebalanceThreshold * total)
                         /\ recipients(v) # {}}}

\* The transfer tasks _performRebalance creates, lines 576-594, for the
\* balances object with keys in order o.
HC_performRebalance(bal, o) ==
    LET total == HC_totalBalance(bal)
        target == total \div 3
        recipients(name) == {i \in DOMAIN o : o[i] # name /\ bal[o[i]] < target}
        first(name) == o[CHOOSE i \in recipients(name) : \A j \in recipients(name) : i <= j]
    IN  {[from |-> name, to |-> first(name),
          amount |-> IF bal[name] - target < target - bal[first(name)]
                     THEN bal[name] - target ELSE target - bal[first(name)]] :
            name \in {v \in HC_Exchanges :
                         /\ ~(DecimalAbs(bal[v] - target) * 100 < RebalanceThreshold * total)
                         /\ recipients(v) # {}}}

\* _checkRebalance once the balances are read, lines 551-560: needsRebalance
\* holds the venues with bal.sub(avg).abs().div(total).gt(rebalanceThreshold);
\* with a total of 0 the quotient is NaN and gt is false.
HC_checkRebalance(bal, o) ==
    LET total == HC_totalBalance(bal)
        needsRebalance ==
            {v \in HC_Exchanges :
                DecimalAbs(bal[v] - total \div 3) * 100 > RebalanceThreshold * total}
    IN  IF needsRebalance # {} THEN HC_performRebalance(bal, o) ELSE {}

\* _updatePnL, lines 614-623: now is in the first 10 minutes of the day
\* (phase "window") or not; each reset emits 'dailyPnl'.
HC_updatePnL(p) ==
    IF p.phase = "window"
    THEN (IF ~p.dailyPnlReset
          THEN [p EXCEPT !.resets = Bump(@), !.dailyPnlReset = TRUE]
          ELSE p)
    ELSE [p EXCEPT !.dailyPnlReset = FALSE]

\* The interval callback, lines 440-448, up to the await of
\* _getExchangeBalances: Object.entries(undefined) in _monitorActiveHedges
\* throws and the catch of line 453 emits 'error'.
HC_loopTick ==
    /\ HC_Running
    /\ BagCardinality(loops) < MaxTicks
    /\ pnl' = [pnl EXCEPT !.ticked = @ \/ pnl.phase = "window"]
    /\ IF emergencyStop THEN UNCHANGED <<loops, emitted>>
       ELSE IF ~activeHedgesDefined
       THEN emitted' = Emit(emitted, "error", NoKey) /\ UNCHANGED loops
       ELSE loops' = loops (+) One([stage |-> "balances", pending |-> 0]) /\ UNCHANGED emitted
    /\ UNCHANGED <<program, frmVars, hcVars, openLegs, orders, rateVars, riskVars,
                   stopped, wsClosed, balances, transfers, calc, sweeps, sweepCloses>>

\* What a tick does once its rebalance is over: _updatePnL, then it ends.
HC_tickEnds(t) ==
    /\ loops' = loops (-) One(t)
    /\ pnl' = HC_updatePnL(pnl)

\* _getExchangeBalances of tick t settles: rejected when one read is (the
\* tick ends in the catch of line 453), else with the keys in order o.
HC_balancesSettle(t, ok, o) ==
    /\ HC_Running
    /\ BagIn(t, loops)
    /\ t.stage = "balances"
    /\ IF ~ok
       THEN /\ loops' = loops (-) One(t)
            /\ emitted' = Emit(emitted, "error", NoKey)
            /\ UNCHANGED <<transfers, pnl>>
       ELSE /\ transfers' = transfers \cup HC_checkRebalance(balances, o)
            /\ IF HC_checkRebalance(balances, o) = {}
               THEN HC_tickEnds(t)
               ELSE /\ loops' = Moved(loops, t, [stage |-> "transfers", pending |->
                                          Cardinality(HC_checkRebalance(balances, o))])
                    /\ UNCHANGED pnl
            /\ UNCHANGED emitted
    /\ UNCHANGED <<program, frmVars, hcVars, openLegs, orders, rateVars, riskVars,
                   stopped, wsClosed, balances, calc, sweeps, sweepCloses>>

\* One transferTo call of tick t settles; a rejection is logged (line 606).
HC_transferSettles(t) ==
    /\ HC_Running
    /\ BagIn(t, loops)
    /\ t.stage = "transfers"
    /\ IF t.pending = 1 THEN HC_tickEnds(t)
       ELSE loops' = Moved(loops, t, [t EXCEPT !.pending = @ - 1]) /\ UNCHANGED pnl
    /\ UNCHANGED <<program, frmVars, hcVars, openLegs, orders, emitted, rateVars, riskVars,
                   stopped, wsClosed, balances, transfers, calc, sweeps, sweepCloses>>

\* Time passes: the reset window of the day ends, or the next day begins.
HC_clockAdvances ==
    /\ HC_Running
    /\ pnl.phase = "window" \/ pnl.day < MaxDays
    /\ pnl' = IF pnl.phase = "window" THEN [pnl EXCEPT !.phase = "rest"]
              ELSE [pnl EXCEPT !.day = @ + 1, !.phase = "window",
                               !.resets = 0, !.ticked = FALSE]
    /\ UNCHANGED <<program, frmVars, hcVars, openLegs, orders, emitted, rateVars, riskVars,
                   stopped, wsClosed, balances, loops, transfers, calc, sweeps, sweepCloses>>

\* ============================================= sizing and monitor arithmetic
\* Decimal values are integers in units of 10^-8. Both programs set
\* Decimal.set({precision: 8, rounding: ROUND_DOWN}) (line 17, line 18):
\* div and mul keep 8 significant digits, toDecimalPlaces(8) keeps 8 decimals.
\* config.takeProfit, line 26, and config.stopLoss, line 25.
TakeProfit == 10000000
StopLoss == 5000000

\* n / d rounded toward zero to 8 decimals, for whole n and d > 0 with
\* |n| / d < 10: long division in two steps of four digits.
Div8(n, d) ==
    LET a == DecimalAbs(n)
        r1 == (a % d) * 10000
        r2 == (r1 % d) * 10000
        q == (a \div d) * 100000000 + (r1 \div d) * 10000 + r2 \div d
    IN  IF n < 0 THEN -q ELSE q

NoResult == [outcome |-> "none", prices |-> FALSE, buy |-> -1, sell |-> -1]

\* FundingRateMonitor._executeHedge from the balances on, lines 290-309:
\* maxSize = min of the available balances x 0.5; at most 0 throws before any
\* price is read; else the prices are read and the quantities are
\* maxSize.div(price).toDecimalPlaces(8).
FRM_hedgeSize(in) ==
    LET available == IF in.longAvail < in.shortAvail THEN in.longAvail ELSE in.shortAvail
        maxSize == available \div 2
    IN  IF maxSize <= 0 THEN [NoResult EXCEPT !.outcome = "failed"]
        ELSE [outcome |-> "orders", prices |-> TRUE,
              buy |-> RoundDown8(Div8(maxSize, in.longPrice)),
              sell |-> RoundDown8(Div8(maxSize, in.shortPrice))]

\* HedgeControls._calculateHedgeSize and the orders of _executeHedge, lines
\* 394-400 and 421-437: min(balance / price of the opportunity) x 0.1, to 8
\* decimals, the same size for both legs; no test of the size, no price read.
HC_calculateHedgeSize(in) ==
    LET maxLongSize == RoundDown8(Div8(in.longAvail, in.longPrice))
        maxShortSize == RoundDown8(Div8(in.shortAvail, in.shortPrice))
        maxSize == IF maxLongSize < maxShortSize THEN maxLongSize ELSE maxShortSize
    IN  [outcome |-> "orders", prices |-> FALSE,
         buy |-> maxSize \div 10, sell |-> maxSize \div 10]

\* Variant: the take-profit test with gt in place of gte.
HC_monitorHedge_strict(in) ==
    LET ratioChange == DecimalSub(in.entryRatio,
                           RoundDown8(Div8(in.shortPrice - in.longPrice, in.longPrice)))
    IN  IF in.status # "active" THEN "skip"
        ELSE IF ratioChange > TakeProfit \div 2 THEN "take_profit"
        ELSE IF ratioChange <= -StopLoss THEN "stop_loss"
        ELSE "hold"

\* One hedge of _monitorActiveHedges, lines 461-498, with the prices read:
\* the reason _closeHedge is called with, "hold" when the record is rewritten
\* with the status of the hedge, "skip" for the return of line 461.
HC_monitorHedge(in) ==
    LET currentRatio == RoundDown8(Div8(in.shortPrice - in.longPrice, in.longPrice))
        ratioChange == DecimalSub(in.entryRatio, currentRatio)
    IN  IF in.status # "active" THEN "skip"
        ELSE IF ratioChange >= TakeProfit \div 2 THEN "take_profit"
        ELSE IF ratioChange <= -StopLoss THEN "stop_loss"
        ELSE "hold"

\* The function applied to the inputs held by calc.
Computes(result) ==
    /\ calc.out = NoResult
    /\ calc' = [calc EXCEPT !.out = result]
    /\ UNCHANGED <<program, frmVars, hcVars, openLegs, orders, emitted, rateVars, riskVars,
                   stopped, wsClosed, balances, loops, transfers, pnl, sweeps, sweepCloses>>

FRM_sizes == FRM_Running /\ calc.fn = "size" /\ Computes(FRM_hedgeSize(calc.in))

HC_sizes == HC_Running /\ calc.fn = "size" /\ Computes(HC_calculateHedgeSize(calc.in))

HC_monitors ==
    /\ HC_Running
    /\ calc.fn = "monitor"
    /\ Computes([NoResult EXCEPT !.outcome = HC_monitorHedge(calc.in)])

\* ================================================================== Init
\* The state after construction. The HedgeControls constructor (lines 20-54)
\* never assigns this.activeHedges: the field is undefined unless the code
\* embedding the class assigns it an object, the only value under which
\* _executeHedge, _monitorActiveHedges and getStatus get past their first use
\* of it. Both starts are modelled.
LifecycleIdle ==
    /\ program \in {"FundingRateMonitor", "HedgeControls"}
    /\ positionStatus = [k \in HedgeKeys |-> Undefined]
    /\ attempts = EmptyBag
    /\ monitored = {}
    /\ activeHedgesDefined \in BOOLEAN
    /\ activeHedges = [k \in Keys |-> "absent"]
    /\ isHedgingActive = FALSE
    /\ emergencyStop = FALSE
    /\ checks = EmptyBag
    /\ ticks = EmptyBag
    /\ shutdowns = EmptyBag
    /\ openLegs = [k \in HedgeKeys |-> NoLegs]
    /\ orders = [c \in OrderCalls |-> 0]
    /\ emitted = [e \in Events |-> 0]

\* FundingRateMonitor constructor, lines 40-44: empty store, history, counters.
RatesIdle ==
    /\ started = FALSE
    /\ rates = [v \in Venues |-> [s \in Symbols |-> NoObs]]
    /\ history = EmptyBag
    /\ alertCounts = [v \in Venues |-> [s \in Symbols |-> 0]]
    /\ alerted = [v \in Venues |-> [s \in Symbols |-> {}]]
    /\ polls = EmptyBag
    /\ produced = [v \in Venues |-> 0]
    /\ arbitrage = {}
    /\ cycles = 0

\* HedgeControls constructor, lines 35-36; the venues hold no position.
RiskIdle ==
    /\ venuePositions = [i \in PositionIds |-> 0]
    /\ venueBalance = 0
    /\ riskTicks = EmptyBag
    /\ exposure = Num(0)
    /\ riskCloses = <<>>

\* The side tasks have not run: FundingRateMonitor is not stopped; the main
\* loop of HedgeControls starts in the reset window of day 1 with
\* this.dailyPnlReset undefined; nothing was computed or swept.
SideIdle ==
    /\ stopped = FALSE
    /\ wsClosed = {}
    /\ balances = [v \in HC_Exchanges |-> 0]
    /\ loops = EmptyBag
    /\ transfers = {}
    /\ pnl = [day |-> 1, phase |-> "window", dailyPnlReset |-> FALSE,
              resets |-> 0, ticked |-> FALSE]
    /\ calc = [fn |-> "none", in |-> <<>>, out |-> NoResult]
    /\ sweeps = EmptyBag
    /\ sweepCloses = {}

Init ==
    /\ LifecycleIdle
    /\ autoHedge = TRUE
    /\ RatesIdle
    /\ RiskIdle
    /\ SideIdle

Next == (FRM_Next \/ HC_Next) /\ UNCHANGED <<rateVars, riskVars, sideVars>>

Spec == Init /\ [][Next]_vars

\* ------------------------------------------------------------- RateSpec
\* A run of FundingRateMonitor fed by snapshot cycles and stream updates for
\* one symbol, with the hedges it opens.
RateArrays == {<<>>} \cup {<<[symbol |-> "BTCUSDT", rate |-> r]>> : r \in Rates}

\* The rest of an open attempt started by the arbitrage scan.
FRM_hedgeSteps ==
    /\ \/ \E k \in HedgeKeys, res \in {"ok", "zero", "fail"} : FRM_balancesSettle(k, res)
       \/ \E k \in HedgeKeys, ok \in BOOLEAN : FRM_pricesSettle(k, ok)
       \/ \E k \in HedgeKeys, leg \in Legs, ok \in BOOLEAN : FRM_orderSettles(k, leg, ok)
    /\ UNCHANGED <<rateVars, riskVars, sideVars>>

RateInit ==
    /\ LifecycleIdle
    /\ program = "FundingRateMonitor"
    /\ activeHedgesDefined = FALSE
    /\ autoHedge \in BOOLEAN
    /\ RatesIdle
    /\ RiskIdle
    /\ SideIdle

RateNext ==
    \/ \E n \in 0..MaxLoaded : FRM_historyLoaded(n)
    \/ FRM_pollTick
    \/ \E p \in BagToSet(polls), v \in Venues, ok \in BOOLEAN, data \in RateArrays :
          FRM_fetchSettles(p, v, ok, data)
    \/ \E v \in Venues, r \in Rates : FRM_streamUpdate(v, "BTCUSDT", r)
    \/ FRM_hedgeSteps

RateSpec == RateInit /\ [][RateNext]_vars

\* ------------------------------------------------------------- ScanSpec
\* The arbitrage scan over every store of two venues and two symbols: the
\* store is filled by stream updates (which do not scan), then snapshot
\* cycles that bring no new observation run the scan.
ScanRates == {-100000, 100000, 110000}

ScanPicks == [Venues -> [Symbols -> {NoObs} \cup {[rate |-> r, seq |-> 1] : r \in ScanRates}]]

SymbolOrder == <<"BTCUSDT", "ETHUSDT">>

\* The stream updates that fill the store as pick: per venue, per symbol.
RECURSIVE StreamFilled(_, _, _, _)
StreamFilled(st, pick, vs, ss) ==
    IF vs = <<>> THEN st
    ELSE IF ss = <<>> THEN StreamFilled(st, pick, Tail(vs), SymbolOrder)
    ELSE LET v == Head(vs)
             s == Head(ss)
             n == Cardinality({t \in Symbols : HasRate(st.rates, v, t)})
         IN  StreamFilled(
                 IF pick[v][s] = NoObs THEN st
                 ELSE FRM_processRates(st, v, <<[symbol |-> s, rate |-> pick[v][s].rate,
                                                 seq |-> n + 1]>>),
                 pick, vs, Tail(ss))

ScanInit ==
    /\ LifecycleIdle
    /\ program = "FundingRateMonitor"
    /\ activeHedgesDefined = FALSE
    /\ autoHedge \in BOOLEAN
    /\ started = TRUE
    /\ polls = EmptyBag
    /\ arbitrage = {}
    /\ cycles = 0
    /\ \E pick \in ScanPicks :
          LET st == StreamFilled([rates |-> [v \in Venues |-> [s \in Symbols |-> NoObs]],
                                  history |-> EmptyBag,
                                  alertCounts |-> [v \in Venues |-> [s \in Symbols |-> 0]],
                                  alerted |-> [v \in Venues |-> [s \in Symbols |-> {}]],
                                  critical |-> FALSE],
                                 pick, VenueOrder, SymbolOrder)
          IN  /\ rates = st.rates
              /\ history = st.history
              /\ alertCounts = st.alertCounts
              /\ alerted = st.alerted
              /\ produced = [v \in Venues |->
                                Cardinality({s \in Symbols : HasRate(st.rates, v, s)})]
    /\ RiskIdle
    /\ SideIdle

ScanNext ==
    \/ FRM_pollTick
    \/ \E p \in BagToSet(polls), v \in Venues, ok \in BOOLEAN :
          FRM_fetchSettles(p, v, ok, <<>>)
    \/ FRM_hedgeSteps

ScanSpec == ScanInit /\ [][ScanNext]_vars

\* ------------------------------------------------------------- RiskSpec
\* The risk engine of HedgeControls over the portfolios the venues can hold.
Sizes == {0, 100, 200}
Balances == {0, 1000, 2000}

RiskInit ==
    /\ LifecycleIdle
    /\ program = "HedgeControls"
    /\ autoHedge = TRUE
    /\ RatesIdle
    /\ SideIdle
    /\ venuePositions \in [PositionIds -> Sizes]
    /\ venueBalance \in Balances
    /\ riskTicks = EmptyBag
    /\ exposure = Num(0)
    /\ riskCloses = <<>>

RiskNext ==
    \/ HC_riskTick
    \/ \E t \in BagToSet(riskTicks), ok \in BOOLEAN : HC_riskSettles(t, ok)

RiskSpec == RiskInit /\ [][RiskNext]_vars

\* ------------------------------------------------------------ DeriskSpec
\* _reduceExposure as line 133 invokes it: this.exposure holds the ratio of a
\* portfolio over the limit (line 128), 'riskExceeded' has been emitted (line
\* 132) and the invocation waits for the positions (line 193). The venues
\* answer every call, prices and balances stay as they are, and no other
\* risk tick runs beside the invocation.
DeriskInit ==
    /\ LifecycleIdle
    /\ program = "HedgeControls"
    /\ autoHedge = TRUE
    /\ RatesIdle
    /\ SideIdle
    /\ venuePositions \in [PositionIds -> Sizes]
    /\ venueBalance \in Balances \ {0}
    /\ exposure = HC_div(HC_netValue(venuePositions, Len(PositionInfo)), Num(venueBalance))
    /\ HC_exposureExceeded(exposure)
    /\ riskTicks = One(RiskCall("reducePositions", <<>>, Num(0)))
    /\ riskCloses = <<>>

DeriskNext == \E t \in BagToSet(riskTicks) : HC_riskSettles(t, TRUE)

DeriskSpec == DeriskInit /\ [][DeriskNext]_vars

\* ------------------------------------------------------------ BreachSpec
\* One exposure breach with the risk engine running: the de-risk invocation
\* of DeriskInit, whose calls may be rejected, beside later risk ticks.
BreachSpec == DeriskInit /\ [][RiskNext]_vars

\* ------------------------------------------------------------ SweepSpec
\* emergencyShutdown over every portfolio of RiskInit: the position reads
\* of _closeAllPositions fulfil for any set of venues.
SweepNext ==
    \/ emergencyShutdown /\ UNCHANGED <<rateVars, riskVars, sideVars>>
    \/ \E readable \in SUBSET Venues : HC_sweepPositionsSettle(readable)
    \/ \E c \in BagToSet(shutdowns), i \in PositionIds :
          HC_shutdownCloseSettles(c, i) /\ UNCHANGED <<rateVars, riskVars, sideVars>>

SweepSpec == RiskInit /\ [][SweepNext]_vars

\* ------------------------------------------------------------- CalcSpec
\* The sizing of an open attempt and the decision of the monitor, over
\* balances in USD, prices, entry ratios (0.01, 0.05) and statuses.
SizeInputs ==
    [longAvail : {0, 1000, 2000}, shortAvail : {0, 1000, 2000},
     longPrice : {300, 50000}, shortPrice : {300, 50000}]

MonitorInputs ==
    [status : {"opening", "active", "closed"}, entryRatio : {1000000, 5000000},
     longPrice : {30000, 50000}, shortPrice : {48000, 50000, 52500, 53000, 56000}]

CalcInit ==
    /\ LifecycleIdle
    /\ activeHedgesDefined = HC_Running
    /\ autoHedge = TRUE
    /\ RatesIdle
    /\ RiskIdle
    /\ stopped = FALSE
    /\ wsClosed = {}
    /\ balances = [v \in HC_Exchanges |-> 0]
    /\ loops = EmptyBag
    /\ transfers = {}
    /\ pnl = [day |-> 1, phase |-> "window", dailyPnlReset |-> FALSE,
              resets |-> 0, ticked |-> FALSE]
    /\ \/ \E in \in SizeInputs : calc = [fn |-> "size", in |-> in, out |-> NoResult]
       \/ \E in \in MonitorInputs :
             calc = [fn |-> "monitor", in |-> in, out |-> NoResult] /\ HC_Running
    /\ sweeps = EmptyBag
    /\ sweepCloses = {}

CalcNext == FRM_sizes \/ HC_sizes \/ HC_monitors

CalcSpec == CalcInit /\ [][CalcNext]_vars

\* ------------------------------------------------------------- FlipSpec
\* The arbitrage scan while the rates of one symbol move: from every store
\* of ScanInit that holds BTCUSDT only, with autoHedge on, stream updates
\* change the rates between the snapshot cycles that scan.
FlipInit ==
    /\ ScanInit
    /\ autoHedge = TRUE
    /\ \A v \in Venues : ~HasRate(rates, v, "ETHUSDT")

FlipNext ==
    \/ ScanNext
    \/ \E v \in Venues, r \in ScanRates :
          BagCardinality(history) < 2 * MaxObs /\ FRM_streamApplied(v, "BTCUSDT", r)

FlipSpec == FlipInit /\ [][FlipNext]_vars

\* ----------------------------------------------------------- EngineSpec
\* FundingRateMonitor as in RateSpec, with stop() and, once the polled
\* observations are in, one more stream update. A fetch of bybit and the
\* steps of an open attempt always settle; a fetch of binance may never.
EngineNext ==
    \/ RateNext
    \/ FRM_stop
    \/ \E v \in Venues : FRM_socketReconnects(v)
    \/ \E v \in Venues, r \in Rates :
          Produced = MaxObs /\ FRM_streamApplied(v, "BTCUSDT", r)

EngineSpec ==
    /\ RateInit
    /\ [][EngineNext]_vars
    /\ WF_vars(\E p \in BagToSet(polls), ok \in BOOLEAN, data \in RateArrays :
                  FRM_fetchSettles(p, "bybit", ok, data))
    /\ WF_vars(FRM_hedgeSteps)

\* ------------------------------------------------------------- LoopSpec
\* The main loop of HedgeControls with no hedge in the table, over the
\* balances the venues can hold (constant: transfers are not followed).
LoopInit ==
    /\ LifecycleIdle
    /\ program = "HedgeControls"
    /\ autoHedge = TRUE
    /\ RatesIdle
    /\ RiskIdle
    /\ stopped = FALSE
    /\ wsClosed = {}
    /\ balances \in [HC_Exchanges -> {0, 300, 1200}]
    /\ loops = EmptyBag
    /\ transfers = {}
    /\ pnl = [day |-> 1, phase |-> "window", dailyPnlReset |-> FALSE,
              resets |-> 0, ticked |-> FALSE]
    /\ calc = [fn |-> "none", in |-> <<>>, out |-> NoResult]
    /\ sweeps = EmptyBag
    /\ sweepCloses = {}

LoopNext ==
    \/ HC_loopTick
    \/ \E t \in BagToSet(loops), ok \in BOOLEAN, o \in HC_balanceOrders :
          HC_balancesSettle(t, ok, o)
    \/ \E t \in BagToSet(loops) : HC_transferSettles(t)
    \/ HC_clockAdvances

LoopSpec == LoopInit /\ [][LoopNext]_vars

\* ================================================================ claims
\* The lifecycle state of the record stored under key k, in either program.
HedgeState(k) ==
    IF HC_Running THEN activeHedges[k]
    ELSE CASE positionStatus[k] = Undefined -> "absent"
           [] positionStatus[k].status = "opened" -> "active"
           [] OTHER -> positionStatus[k].status

Terminal == {"closed", "failed", "close_failed"}

\* Calls of kind call and side `side` made for key k, on any venue.
Submitted(call, side, k) ==
    LET RECURSIVE Sum(_)
        Sum(S) == IF S = {} THEN 0
                  ELSE LET v == CHOOSE x \in S : TRUE
                       IN  orders[Call(v, call, side, k)] + Sum(S \ {v})
    IN  Sum(Venues)

\* An open attempt for key k is still running.
Opening(k) ==
    \/ \E a \in BagToSet(attempts) : a.key = k
    \/ \E c \in BagToSet(checks) : c.key = k

\* Close calls (_closeHedge) in flight for key k.
ClosesInFlight(k) ==
    BagCardinality([b \in {x \in BagToSet(ticks) :
                              x.key = k /\ x.pc \in {"closing", "pnlLong", "pnlShort"}}
                    |-> ticks[b]])

\* C1: for every hedge key, whatever the interleaving of opportunity triggers,
\* at most one opening buy and one opening sell are ever submitted and at
\* most one hedgeOpened is emitted.
C1_AtMostOneOpen ==
    \A k \in Keys :
        /\ Submitted("createOrder", "buy", k) <= 1
        /\ Submitted("createOrder", "sell", k) <= 1
        /\ emitted[Ev("hedgeOpened", k)] <= 1

\* C1 witness: both opening orders of a key are out and awaited while a second
\* opportunity check is in flight.
C1_Witness ==
    \E k \in Keys :
        /\ BagIn(Proc("orders", k), checks)
        /\ BagIn(Proc("prices", NoKey), checks)
        /\ Submitted("createOrder", "buy", k) = 1
        /\ Submitted("createOrder", "sell", k) = 1

C3_PartialFillReconciled ==
    \A k \in Keys :
        /\ (~Opening(k) /\ openLegs[k].long = "ok" /\ openLegs[k].short = "fail")
              => /\ orders[Call(k.long, "closePosition", "sell", k)] >= 1
                 /\ HedgeState(k) = "failed"
                 /\ emitted[Ev("hedgeFailed:partial_fill", k)] >= 1
        /\ (~Opening(k) /\ openLegs[k].short = "ok" /\ openLegs[k].long = "fail")
              => /\ orders[Call(k.short, "closePosition", "buy", k)] >= 1
                 /\ HedgeState(k) = "failed"
                 /\ emitted[Ev("hedgeFailed:partial_fill", k)] >= 1

\* C4: a hedge is Active (or was, and has been closed since) only if both of
\* its opening orders returned successfully, and it is Failed whenever an
\* opening order, or a balance or price read before it, failed.
C4_ActiveOnlyIfBothLegs ==
    \A k \in Keys :
        /\ HedgeState(k) \in {"active", "closed", "close_failed"}
              => openLegs[k].long = "ok" /\ openLegs[k].short = "ok"
        /\ (\/ openLegs[k].long = "fail"
            \/ openLegs[k].short = "fail"
            \/ openLegs[k].read \in {"fail", "zero"}) => HedgeState(k) = "failed"

\* C4 witness: one opening leg succeeded, the other failed, the hedge is Failed.
C4_Witness ==
    \E k \in Keys :
        /\ openLegs[k].long = "ok"
        /\ openLegs[k].short = "fail"
        /\ HedgeState(k) = "failed"

C6_ClosedHadBothCloses ==
    \A k \in Keys :
        HedgeState(k) = "closed"
            => /\ orders[Call(k.long, "closePosition", "sell", k)] >= 1
               /\ orders[Call(k.short, "closePosition", "buy", k)] >= 1

\* C6 witness: a hedge is Closed.
C6_Witness == \E k \in Keys : HedgeState(k) = "closed"

C9_ShutdownEventAfterCloses ==
    emitted[Ev("emergencyShutdown", NoKey)] >= 1
        => \A c \in BagToSet(shutdowns) : c.pc = "done"

\* Nothing is in flight: every started call has returned.
Quiescent ==
    /\ checks = EmptyBag
    /\ ticks = EmptyBag
    /\ \A c \in BagToSet(shutdowns) : c.pc \in {"done", "rejected"}
    /\ \A k \in Keys : openLegs[k].long # "pending" /\ openLegs[k].short # "pending"

Magnitude(r) == IF r < 0 THEN -r ELSE r

\* An observation of (v, s) is appended to the history by the step.
Ingested(v, s) ==
    CopiesIn([exchange |-> v, symbol |-> s], history')
        > CopiesIn([exchange |-> v, symbol |-> s], history)

\* C11: for every (venue, symbol), processing an observation with
\* |rate| <= warning leaves the alert counter at 0, processing one with
\* |rate| > warning increases it by exactly 1, and nothing else changes it.
C11_AlertCounter ==
    [][\A v \in Venues, s \in Symbols :
          alertCounts'[v][s] =
              IF ~Ingested(v, s) THEN alertCounts[v][s]
              ELSE IF Magnitude(rates'[v][s].rate) > Warning
                   THEN Bump(alertCounts[v][s])
                   ELSE 0]_vars

\* C11 witness: a warning followed by a critical: the counter is 2.
C11_Witness ==
    \E v \in Venues :
        /\ alertCounts[v]["BTCUSDT"] = 2
        /\ alerted[v]["BTCUSDT"] = {"critical"}
        /\ produced[v] = 2

\* The alerts an observation of rate r is to produce.
ExpectedAlerts(r) ==
    IF Magnitude(r) > Critical THEN {"critical"}
    ELSE IF Magnitude(r) > Warning THEN {"warning"}
    ELSE {}

\* C12: the observation held by a slot produced at most one alert: critical
\* exactly when |rate| > critical, warning exactly when
\* warning < |rate| <= critical, none when |rate| <= warning.
C12_OneAlertPerObservation ==
    \A v \in Venues, s \in Symbols :
        HasRate(rates, v, s)
            => /\ alerted[v][s] = ExpectedAlerts(rates[v][s].rate)
               /\ Cardinality(alerted[v][s]) <= 1

\* C12 witness: a negative rate with |rate| = critical produced a warning and
\* a rate with |rate| = warning produced nothing.
C12_Witness ==
    \E v, w \in Venues :
        /\ HasRate(rates, v, "BTCUSDT") /\ rates[v]["BTCUSDT"].rate = -Critical
        /\ alerted[v]["BTCUSDT"] = {"warning"}
        /\ HasRate(rates, w, "BTCUSDT") /\ rates[w]["BTCUSDT"].rate = Warning
        /\ alerted[w]["BTCUSDT"] = {}

\* The venues holding data, and the latest rates of symbol s among them.
WithData == {v \in Venues : \E s \in Symbols : HasRate(rates, v, s)}

\* Symbol s is an arbitrage opportunity in the store: at least 2 venues have
\* data, each of them has s, and max - min exceeds the threshold.
Opportunity(s) ==
    /\ Cardinality(WithData) >= 2
    /\ \A v \in WithData : HasRate(rates, v, s)
    /\ \E v, w \in WithData : rates[v][s].rate - rates[w][s].rate > Arbitrage

\* C13: every emitted opportunity names as long_venue a venue with the
\* minimum latest rate and as short_venue one with the maximum, with
\* long_rate <= short_rate and spread = short_rate - long_rate > 0, and the
\* opening orders of its hedge buy on long_venue and sell on short_venue.
C13_LongIsMinVenue ==
    \A a \in arbitrage :
        /\ \A v \in WithData : /\ a.longRate <= rates[v][a.symbol].rate
                               /\ a.shortRate >= rates[v][a.symbol].rate
        /\ a.longRate = rates[a.longExchange][a.symbol].rate
        /\ a.shortRate = rates[a.shortExchange][a.symbol].rate
        /\ a.longRate <= a.shortRate
        /\ a.spread = a.shortRate - a.longRate
        /\ a.spread > 0
        /\ \A c \in OrderCalls :
              (orders[c] > 0 /\ c.key = FRM_hedgeKey(a))
                  => \/ c.side = "buy" /\ c.venue = a.longExchange
                     \/ c.side = "sell" /\ c.venue = a.shortExchange

\* C14: after a snapshot cycle an opportunity has been emitted for a symbol
\* exactly when at least 2 venues have data, the symbol is present for every
\* venue that has data and max - min > the arbitrage threshold.
C14_OpportunityExactly ==
    cycles >= 1
        => \A s \in Symbols : (\E a \in arbitrage : a.symbol = s) <=> Opportunity(s)

\* C14 witness: after a cycle one symbol was emitted and the other, whose
\* spread equals the threshold, was not.
C14_Witness ==
    /\ cycles >= 1
    /\ \E s, t \in Symbols :
          /\ \E a \in arbitrage : a.symbol = s
          /\ \A a \in arbitrage : a.symbol # t
          /\ \A v \in Venues : HasRate(rates, v, t)
          /\ \E v, w \in Venues : rates[v][t].rate - rates[w][t].rate = Arbitrage

\* The cycle in flight completes in this step.
CycleCompletes == polls # EmptyBag /\ polls' = EmptyBag

\* C15: when a cycle completes, the observations of every venue whose fetch
\* succeeded are in the store and evaluated, the arbitrage scan has run, and
\* a venue whose fetch failed keeps the rates it had.
C15_FailedFetchDoesNotBlock ==
    [][CycleCompletes =>
          \A p \in BagToSet(polls), v \in Venues :
              /\ p[v].status = "fulfilled"
                    => \A i \in 1..Len(p[v].obs) :
                          LET o == p[v].obs[i]
                          IN  /\ rates'[v][o.symbol] = [rate |-> o.rate, seq |-> o.seq]
                              /\ alerted'[v][o.symbol] = ExpectedAlerts(o.rate)
                              /\ Ingested(v, o.symbol)
              /\ p[v].status = "rejected" => rates'[v] = rates[v]
              /\ cycles' >= 1
              /\ \A s \in Symbols :
                    Opportunity(s)' => \E a \in arbitrage' : a.symbol = s]_vars

\* C15 witness: in the running cycle the fetch of a venue that has stored
\* rates was rejected while another venue's fetch brought an observation.
C15_Witness ==
    \E p \in BagToSet(polls), v, w \in Venues :
        /\ p[v].status = "rejected"
        /\ HasRate(rates, v, "BTCUSDT")
        /\ p[w].status = "pending"
        /\ Produced < MaxObs

\* C16: the latest slot of a (venue, symbol) never goes back to an
\* observation the venue's adapter produced before the one it holds.
C16_AppliedInProducedOrder ==
    [][\A v \in Venues, s \in Symbols : rates'[v][s].seq >= rates[v][s].seq]_vars

\* C17: after any sequence of loaded and ingested observations the history
\* never holds more entries than the cap.
C17_HistoryWithinCap == BagCardinality(history) <= HistoryCap

\* ------------------------------------------------- claims on the risk engine
\* The signed USD value of position i, the net value and the side of its sign.
SignedValue(i) ==
    (IF PositionInfo[i].side = "long" THEN 1 ELSE -1)
        * venuePositions[i] * PositionInfo[i].markPrice

NetValue == SignedValue(1) + SignedValue(2) + SignedValue(3)

NetSide == IF NetValue > 0 THEN "long" ELSE "short"

\* The total is not 0 and |net / total| > max_exposure.
OverLimit ==
    /\ venueBalance # 0
    /\ Magnitude(NetValue) * 1000 > MaxExposure * venueBalance

\* |net| <= 0.8 x max_exposure x total.
WithinTarget ==
    Magnitude(NetValue) * 1000 * 1000 <= ReduceFactor * MaxExposure * venueBalance

\* The positions de-risk may close, and the worst of them.
Candidates == {i \in PositionIds : venuePositions[i] > 0 /\ PositionInfo[i].side = NetSide}

Worst ==
    CHOOSE i \in Candidates :
        \A j \in Candidates : PositionInfo[i].unrealizedPnl <= PositionInfo[j].unrealizedPnl

\* A risk tick whose positions arrived is evaluated in this step: it leaves
\* the call for the total behind.
TickEvaluated ==
    /\ CopiesIn(RiskCall("positions", <<>>, Num(0)), riskTicks')
          < CopiesIn(RiskCall("positions", <<>>, Num(0)), riskTicks)
    /\ CopiesIn(TotalCall, riskTicks') > CopiesIn(TotalCall, riskTicks)

\* A de-risk invocation is under way.
DeriskRunning ==
    \E t \in BagToSet(riskTicks) : t.stage \in {"reducePositions", "close"}

\* De-risk is invoked in this step.
DeriskInvoked ==
    CopiesIn(RiskCall("reducePositions", <<>>, Num(0)), riskTicks')
        > CopiesIn(RiskCall("reducePositions", <<>>, Num(0)), riskTicks)

\* C18: a risk tick emits RiskExceeded and invokes de-risk exactly when the
\* total is not 0 and |net / total| > max_exposure, and with a total of 0 it
\* emits no error.
C18_RiskExceededExactly ==
    [][TickEvaluated =>
          /\ OverLimit => /\ emitted'[Ev("riskExceeded", NoKey)] = 1
                          /\ DeriskInvoked
          /\ ~OverLimit => /\ emitted'[Ev("riskExceeded", NoKey)]
                                 = emitted[Ev("riskExceeded", NoKey)]
                           /\ ~DeriskInvoked
          /\ venueBalance = 0
                => emitted'[Ev("error", NoKey)] = emitted[Ev("error", NoKey)]]_vars

DeriskPositionsArrive ==
    CopiesIn(RiskCall("reducePositions", <<>>, Num(0)), riskTicks')
        < CopiesIn(RiskCall("reducePositions", <<>>, Num(0)), riskTicks)

\* The notional de-risk is to remove: |net| - 0.8 x max_exposure x total.
RemainingUsd ==
    Magnitude(NetValue) - (ReduceFactor * MaxExposure * venueBalance) \div (1000 * 1000)

C22_DailyResetOncePerWindow ==
    /\ pnl.resets <= 1
    /\ (pnl.phase = "rest" /\ loops = EmptyBag /\ pnl.ticked) => pnl.resets = 1

\* ------------------------------------------ claims on stopping and waiting
\* C23: after stop() no new order is submitted on any adapter, whatever
\* polling cycle or open attempt was in flight.
C23_NoOrderAfterStop == [][stopped => orders' = orders]_vars

\* C24: the re-evaluation pass a critical observation triggers examines
\* every Active hedge: on a step that ingests an observation with
\* |rate| > critical, each opened hedge is handed to _monitorHedgePosition.
C24_CriticalReevaluatesOpened ==
    [][(\E v \in Venues, s \in Symbols :
            Ingested(v, s) /\ Magnitude(rates'[v][s].rate) > Critical)
         => \A k \in HedgeKeys :
                positionStatus[k] = ObjVal("opened") => k \in monitored']_vars

\* A polling cycle holds the fulfilled fetch of bybit, not yet processed.
FetchedWaiting ==
    \E p \in BagToSet(polls) :
        p["bybit"].status = "fulfilled" /\ p["bybit"].obs # <<>>

\* C29: one slow venue does not block the others: the observations bybit
\* returned on a tick are eventually stored and evaluated and the scan of the
\* tick runs, even if the fetch of binance never returns.
C29_SlowVenueDoesNotBlock == FetchedWaiting ~> ~FetchedWaiting

\* ------------------------------------------------- claims on terminal keys
\* C27: a key whose record is terminal (closed, failed, close_failed) is not
\* reused: no step starts a new open attempt for it or sets it to opening,
\* and the evaluation of an opportunity submits no order and leaves the
\* record as it is.
C27_TerminalKeyNotReused ==
    [][\A k \in Keys :
          HedgeState(k) \in Terminal
              => /\ HedgeState(k)' # "opening"
                 /\ CopiesIn(Proc("balances", k), attempts')
                        <= CopiesIn(Proc("balances", k), attempts)
                 /\ CopiesIn(Proc("size", k), checks') <= CopiesIn(Proc("size", k), checks)
                 /\ CopiesIn(Proc("prices", NoKey), checks')
                        < CopiesIn(Proc("prices", NoKey), checks)
                      => /\ orders' = orders
                         /\ HedgeState(k)' = HedgeState(k)]_vars

\* C27 witness: the record of the key is closed and the prices of a further
\* opportunity check are about to arrive.
C27_Witness ==
    /\ HC_Running
    /\ \E k \in Keys : activeHedges[k] = "closed"
    /\ BagIn(Proc("prices", NoKey), checks)

\* ------------------------------------------- claims on sizes and decisions
\* The decision the monitor is to take: ratio_change = entry_ratio -
\* (short_price - long_price) / long_price against take_profit x 0.5 and
\* -stop_loss, compared exactly, in hundredths.
ExpectedDecision(in) ==
    LET change == (in.entryRatio \div 1000000) * in.longPrice
                      - (in.shortPrice - in.longPrice) * 100
    IN  IF in.status # "active" THEN "skip"
        ELSE IF change >= 5 * in.longPrice THEN "take_profit"
        ELSE IF change <= -5 * in.longPrice THEN "stop_loss"
        ELSE "hold"

\* C25: on a monitor tick an Active hedge is closed with take_profit when
\* ratio_change >= take_profit x 0.5, otherwise with stop_loss when
\* ratio_change <= -stop_loss, otherwise it is held; a hedge that is not
\* Active is skipped.
C25_MonitorDecision ==
    (calc.fn = "monitor" /\ calc.out # NoResult)
        => calc.out.outcome = ExpectedDecision(calc.in)

\* C25 witness: a take-profit at exactly ratio_change = 0.05 (entry 0.05,
\* both prices 50000).
C25_Witness ==
    /\ calc.fn = "monitor"
    /\ calc.in = [status |-> "active", entryRatio |-> 5000000,
                  longPrice |-> 50000, shortPrice |-> 50000]
    /\ calc.out.outcome = "take_profit"

\* The smaller of the two available balances.
Available ==
    IF calc.in.longAvail < calc.in.shortAvail THEN calc.in.longAvail ELSE calc.in.shortAvail

\* C26: with size_usd = min(long_avail, short_avail) x 0.5 > 0, the buy
\* carries size_usd / long_price and the sell size_usd / short_price, each
\* rounded down to 8 decimals.
C26_LegQuantities ==
    (calc.fn = "size" /\ calc.out # NoResult /\ Available > 0)
        => /\ calc.out.outcome = "orders"
           /\ calc.out.buy = Div8(Available \div 2, calc.in.longPrice)
           /\ calc.out.sell = Div8(Available \div 2, calc.in.shortPrice)

C30_BestEffortSweep ==
    \A w \in BagToSet(sweeps), i \in PositionIds :
        (venuePositions[i] > 0 /\ PositionInfo[i].exchange \in w.readable)
            => i \in sweepCloses

\* ------------------------------------------------ claims on the streams
\* C31: after stop() the stream connections stay closed: no adapter
\* reconnects its socket and no step other than the end of a polling cycle
\* writes an observation to the store.
C31_StreamsStayClosed ==
    [][stopped => /\ wsClosed' = Venues
                  /\ polls' = polls => (rates' = rates /\ history' = history)]_vars

\* ------------------------------------------------ claims on the hedge table
\* C32: the hedge table of HedgeControls exists in every reachable state
\* from construction on.
C32_HedgeTableExists == HC_Running => activeHedgesDefined

\* ------------------------------------------------- claims on the total PnL
\* The number of times the final PnL of hedge k was added to pnl.total: line
\* 531 runs in the same block as the 'hedgeClosed' emission of line 533.
PnlAdded(k) == emitted[Ev("hedgeClosed", k)]

Incoming(ts, r) ==
    LET sent(v) == {t \in ts : t.from = v /\ t.to = r /\ t.amount > 0}
        amount(v) == IF sent(v) = {} THEN 0 ELSE (CHOOSE t \in sent(v) : TRUE).amount
    IN  amount("binance") + amount("ftx") + amount("bybit")

C35_NoOppositeHedges ==
    \A k, j \in HedgeKeys :
        (k.symbol = j.symbol /\ k.long = j.short /\ k.short = j.long)
            => ~(/\ positionStatus[k] \in {StrVal("opening"), ObjVal("opened")}
                 /\ positionStatus[j] \in {StrVal("opening"), ObjVal("opened")})

\* ------------------------------------------------ claims on one breach
\* A close was submitted for position i.
CloseAttempted(i) ==
    \E n \in DOMAIN riskCloses :
        /\ riskCloses[n].exchange = PositionInfo[i].exchange
        /\ riskCloses[n].symbol = PositionInfo[i].symbol

====
